---- MODULE Spec2Model ----
(***************************************************************************)
(* A model of luminoth/train.py: the launcher (__main__), the worker       *)
(* (main_worker) with its dataset resolution, checkpoint resume, test-only *)
(* path and per-epoch training loop, and the checkpoint files the workers  *)
(* leave in the output directory between successive invocations.           *)
(*                                                                         *)
(* Strings that the code takes apart (the data path) are sequences of      *)
(* one-character strings; strings that are only compared are TLA+ strings. *)
(***************************************************************************)
EXTENDS Integers, Sequences, FiniteSets, TLC

VARIABLES
    given,     \* the command line of the current invocation, as parsed
    args,      \* the argparse namespace, as the code has updated it
    mainpc,    \* position of the launching process in __main__
    launch,    \* how main_worker was started: [mode, nprocs]
    workers,   \* per worker process: position and local objects of main_worker
    fs,        \* checkpoint files model_<i>.pth of the output directory
    writes,    \* checkpoint writes performed by the current invocation
    stdout,    \* messages printed by the current invocation
    status,    \* exit status of the launching process (-1 while running)
    runs       \* number of invocations started so far

vars == <<given, args, mainpc, launch, workers, fs, writes, stdout, status, runs>>

(***************************************************************************)
(* Bounds of the model.                                                    *)
(***************************************************************************)
MaxGpus == 3       \* local devices 0..MaxGpus-1, at most MaxGpus listed
MaxEpochs == 2     \* --epochs ranges over 0..MaxEpochs
MaxRuns == 2       \* successive invocations sharing the output directory
MaxPathLen == 2    \* characters of a data path after its prefix

Procs == 0..(MaxGpus - 1)

(***************************************************************************)
(* Strings as sequences of characters.                                     *)
(***************************************************************************)
Letters == {"g", "s", "G", "S", "a", "b"}
SchemeChars == Letters \cup {"3", "+", "-", "."}

Lower(c) == IF c = "G" THEN "g" ELSE IF c = "S" THEN "s" ELSE c

LowerSeq(s) == [i \in 1..Len(s) |-> Lower(s[i])]

\* index of the first character of s that lies in C, Len(s)+1 when none does
FirstIndex(s, C) ==
    IF \E i \in 1..Len(s) : s[i] \in C
    THEN CHOOSE i \in 1..Len(s) : s[i] \in C /\ \A j \in 1..(i - 1) : s[j] \notin C
    ELSE Len(s) + 1

\* s[k:] of Python, k counted from 0
From(s, k) == SubSeq(s, k + 1, Len(s))

\* urllib.parse.urlparse, restricted to scheme, netloc and path
UrlParse(url) ==
    LET colon     == FirstIndex(url, {":"})
        hasScheme == /\ colon <= Len(url)
                     /\ colon > 1
                     /\ url[1] \in Letters
                     /\ \A j \in 1..(colon - 1) : url[j] \in SchemeChars
        scheme    == IF hasScheme THEN LowerSeq(SubSeq(url, 1, colon - 1)) ELSE <<>>
        rest      == IF hasScheme THEN From(url, colon) ELSE url
        hasNet    == Len(rest) >= 2 /\ rest[1] = "/" /\ rest[2] = "/"
        afterSl   == From(rest, 2)
        netEnd    == FirstIndex(afterSl, {"/", "?", "#"})
        netloc    == IF hasNet THEN SubSeq(afterSl, 1, netEnd - 1) ELSE <<>>
        rest2     == IF hasNet THEN From(afterSl, netEnd - 1) ELSE rest
        noFrag    == SubSeq(rest2, 1, FirstIndex(rest2, {"#"}) - 1)
        path      == SubSeq(noFrag, 1, FirstIndex(noFrag, {"?"}) - 1)
    IN  [scheme |-> scheme, netloc |-> netloc, path |-> path]

GS == <<"g", "s">>

NoBucket == [present |-> FALSE, name |-> <<>>]

\* ResolveDataPath handing on the object path as parsed
ResolveDataPath_NoStrip(data_path) ==
    LET url_path == UrlParse(data_path)
    IN  IF url_path.scheme = GS
        THEN [data_path |-> url_path.path,
              gs_bucket |-> [present |-> TRUE, name |-> url_path.netloc]]
        ELSE [data_path |-> data_path, gs_bucket |-> NoBucket]

\* main_worker's cloud-storage detection: the data path and bucket handed on
ResolveDataPath(data_path) ==
    LET url_path == UrlParse(data_path)
    IN  IF url_path.scheme = GS
        THEN [data_path |-> From(url_path.path, 1),
              gs_bucket |-> [present |-> TRUE, name |-> url_path.netloc]]
        ELSE [data_path |-> data_path, gs_bucket |-> NoBucket]

\* GetDataset treating every name but "coco" as "coco_kp"
GetDataset_FallThrough(name, image_set, data_path, gs_bucket) ==
    IF name = "coco"
    THEN [exited |-> FALSE, printed |-> FALSE, num_classes |-> 91,
          calls |-> << [fn |-> "get_coco", image_set |-> image_set,
                        data_path |-> data_path, gs_bucket |-> gs_bucket] >>]
    ELSE [exited |-> FALSE, printed |-> FALSE, num_classes |-> 2,
          calls |-> << [fn |-> "get_coco_kp", image_set |-> image_set,
                        data_path |-> data_path, gs_bucket |-> gs_bucket] >>]

(***************************************************************************)
(* get_dataset: the outcome of one call.                                   *)
(***************************************************************************)
GetDataset(name, image_set, data_path, gs_bucket) ==
    IF name = "coco"
    THEN [exited |-> FALSE, printed |-> FALSE, num_classes |-> 91,
          calls |-> << [fn |-> "get_coco", image_set |-> image_set,
                        data_path |-> data_path, gs_bucket |-> gs_bucket] >>]
    ELSE IF name = "coco_kp"
    THEN [exited |-> FALSE, printed |-> FALSE, num_classes |-> 2,
          calls |-> << [fn |-> "get_coco_kp", image_set |-> image_set,
                        data_path |-> data_path, gs_bucket |-> gs_bucket] >>]
    ELSE [exited |-> TRUE, printed |-> TRUE, num_classes |-> 0, calls |-> <<>>]

(***************************************************************************)
(* Model, optimizer and scheduler objects.  The model is the number of     *)
(* training epochs its weights have received; the optimizer is the number  *)
(* of decays applied to its learning rate and the number of epochs of      *)
(* updates in its buffers; the scheduler is MultiStepLR's state_dict.      *)
(***************************************************************************)
NewModel == [trained |-> 0]

NewOptimizer == [lr_decays |-> 0, updates |-> 0]

Multiplicity(steps, e) == Cardinality({i \in DOMAIN steps : steps[i] = e})

\* lr_scheduler.step() of MultiStepLR: advance the epoch counter and decay
\* the optimizer's learning rate once per milestone equal to the new epoch
SchedulerStep(sched, opt) ==
    LET e == sched.last_epoch + 1
    IN  [lr_scheduler |-> [sched EXCEPT !.last_epoch = e, !.step_count = @ + 1],
         optimizer    |-> [opt EXCEPT !.lr_decays = @ + Multiplicity(sched.milestones, e)]]

\* constructing MultiStepLR performs the initial step
NewScheduler(lr_steps, opt) ==
    SchedulerStep([last_epoch |-> -1, step_count |-> 0, milestones |-> lr_steps], opt)

\* engine.train_one_epoch: one epoch of updates to the weights and buffers
TrainOneEpoch(model, opt, epoch) ==
    [model     |-> [model EXCEPT !.trained = @ + 1],
     optimizer |-> [opt EXCEPT !.updates = @ + 1]]

\* the dictionary handed to utils.save_on_master
Checkpoint(wk, a) ==
    [model        |-> wk.model,
     optimizer    |-> wk.optimizer,
     lr_scheduler |-> wk.lr_scheduler,
     args         |-> [a EXCEPT !.data_path = wk.data_path]]

\* LoadCheckpoint without the scheduler's load_state_dict
LoadCheckpoint_NoScheduler(wk, ck) ==
    [wk EXCEPT !.model = ck.model,
               !.optimizer = ck.optimizer]

\* LoadCheckpoint continuing the epoch index where the checkpoint stopped
LoadCheckpoint_StartEpoch(wk, ck) ==
    [wk EXCEPT !.model = ck.model,
               !.optimizer = ck.optimizer,
               !.lr_scheduler = ck.lr_scheduler,
               !.epoch = ck.lr_scheduler.last_epoch]

\* the three load_state_dict calls of the resume block
LoadCheckpoint(wk, ck) ==
    [wk EXCEPT !.model = ck.model,
               !.optimizer = ck.optimizer,
               !.lr_scheduler = ck.lr_scheduler]

\* utils.init_distributed_mode: the distributed context of a worker
InitDistributedMode(a, index) ==
    LET dist == a.world_size > 1
    IN  [distributed |-> dist,
         rank        |-> IF dist THEN a.node_rank * Len(a.local_gpus) + index ELSE 0]

\* torch.save of ck as model_<e>.pth; disk is the pair of fs and writes
TorchSave(disk, wk, ck, e) ==
    [fs     |-> [j \in DOMAIN disk.fs \cup {e} |-> IF j = e THEN ck ELSE disk.fs[j]],
     writes |-> Append(disk.writes, [worker |-> wk.index, rank |-> wk.rank, epoch |-> e])]

\* utils.save_on_master: only the rank-zero process writes
SaveOnMaster(disk, wk, ck, e) ==
    IF wk.rank = 0 THEN TorchSave(disk, wk, ck, e) ELSE disk

(***************************************************************************)
(* The launcher, __main__.                                                 *)
(***************************************************************************)
\* EffectiveWorldSize overriding any world size when several devices are listed
EffectiveWorldSize_Always(a) ==
    IF Len(a.local_gpus) > 1
    THEN Len(a.local_gpus)
    ELSE a.world_size

EffectiveWorldSize(a) ==
    IF a.world_size = 1 /\ Len(a.local_gpus) > 1
    THEN Len(a.local_gpus)
    ELSE a.world_size

\* WorldSizeTooSmall with the comparison inverted
WorldSizeTooSmall_Inverted(a) ==
    a.world_size # 1 /\ a.world_size > Len(a.local_gpus)

WorldSizeTooSmall(a) ==
    a.world_size # 1 /\ a.world_size < Len(a.local_gpus)

\* UseSpawn looking at the device list alone
UseSpawn_GpusOnly(a) ==
    Len(a.local_gpus) > 1

UseSpawn(a) ==
    a.node_rank # 0 \/ Len(a.local_gpus) > 1

NoWorker ==
    [pc |-> "absent", index |-> 0, local_rank |-> 0, rank |-> 0,
     distributed |-> FALSE, world_size |-> 0,
     data_path |-> <<>>, gs_bucket |-> NoBucket, num_classes |-> 0,
     ds_calls |-> <<>>,
     model |-> NewModel, optimizer |-> NewOptimizer,
     lr_scheduler |-> [last_epoch |-> -1, step_count |-> 0, milestones |-> <<>>],
     sched0 |-> [last_epoch |-> -1, step_count |-> 0, milestones |-> <<>>],
     epoch |-> 0, trace |-> <<>>]

\* a worker entering main_worker(local_rank, args)
StartedWorker(index, local_rank, a) ==
    [NoWorker EXCEPT !.pc = "start", !.index = index, !.local_rank = local_rank,
                     !.world_size = a.world_size]

Launched == {w \in Procs : workers[w].pc # "absent"}

Finished(w) == workers[w].pc \in {"returned", "exited", "raised"}

\* lines 227-235: adjust the world size, refuse one that is too small
MainCheckWorldSize ==
    /\ mainpc = "start"
    /\ LET a == [args EXCEPT !.world_size = EffectiveWorldSize(args)]
       IN  /\ args' = a
           /\ IF WorldSizeTooSmall(a)
              THEN /\ stdout' = stdout \cup {[who |-> "main", msg |-> "world-size"]}
                   /\ mainpc' = "exited"
                   /\ status' = 0
              ELSE /\ mainpc' = "launch"
                   /\ UNCHANGED <<stdout, status>>
    /\ UNCHANGED <<given, launch, workers, fs, writes, runs>>

\* lines 239-243: spawn one process per listed device, or call main_worker
MainLaunch ==
    /\ mainpc = "launch"
    /\ IF UseSpawn(args)
       THEN /\ launch' = [mode |-> "spawn", nprocs |-> Len(args.local_gpus)]
            /\ workers' = [w \in Procs |->
                             IF w < Len(args.local_gpus)
                             THEN StartedWorker(w, w, args)
                             ELSE NoWorker]
       ELSE /\ launch' = [mode |-> "inline", nprocs |-> 1]
            /\ workers' = [w \in Procs |->
                             IF w = 0
                             THEN StartedWorker(0, args.local_gpus[1], args)
                             ELSE NoWorker]
    /\ mainpc' = "running"
    /\ UNCHANGED <<given, args, fs, writes, stdout, status, runs>>

\* the launching process ends once main_worker, or every spawned process, has
MainFinish ==
    /\ mainpc = "running"
    /\ \A w \in Launched : Finished(w)
    /\ mainpc' = IF launch.mode = "inline" /\ workers[0].pc = "exited"
                 THEN "exited" ELSE "done"
    /\ status' = IF \E w \in Launched : workers[w].pc = "raised" THEN 1 ELSE 0
    /\ UNCHANGED <<given, args, launch, workers, fs, writes, stdout, runs>>

(***************************************************************************)
(* The worker, main_worker(local_rank, args).                              *)
(***************************************************************************)
\* an entry of a worker's trace: the step performed and the epoch index it was
\* given; a "load" entry carries the number of epochs the checkpoint records
Event(op, e) == [op |-> op, epoch |-> e]

SetWorker(w, wk) == workers' = [workers EXCEPT ![w] = wk]

\* lines 70-137: distributed context, data path, datasets, model, optimizer
\* and scheduler
WorkerSetup(w) ==
    /\ mainpc = "running"
    /\ workers[w].pc = "start"
    /\ LET wk  == workers[w]
           ctx == InitDistributedMode(args, wk.index)
           r   == ResolveDataPath(args.data_path)
           d1  == GetDataset(args.dataset, "train", r.data_path, r.gs_bucket)
           d2  == GetDataset(args.dataset, "val", r.data_path, r.gs_bucket)
           s   == NewScheduler(args.lr_steps, NewOptimizer)
           set == [wk EXCEPT !.distributed = ctx.distributed, !.rank = ctx.rank,
                             !.data_path = r.data_path, !.gs_bucket = r.gs_bucket]
       IN  IF d1.exited \/ d2.exited
           THEN /\ SetWorker(w, [set EXCEPT
                        !.pc = "exited",
                        !.ds_calls = IF d1.exited THEN d1.calls ELSE d1.calls \o d2.calls])
                /\ stdout' = stdout \cup {[who |-> "worker", msg |-> "dataset"]}
           ELSE /\ SetWorker(w, [set EXCEPT
                        !.pc = "resume",
                        !.ds_calls = d1.calls \o d2.calls,
                        !.num_classes = d1.num_classes,
                        !.model = NewModel,
                        !.optimizer = s.optimizer,
                        !.lr_scheduler = s.lr_scheduler])
                /\ UNCHANGED stdout
    /\ UNCHANGED <<given, args, mainpc, launch, fs, writes, status, runs>>

\* AfterResume without the test-only branch
AfterResume_IgnoreTestOnly(a) ==
    IF a.epochs > 0 THEN "train" ELSE "returned"

\* where main_worker goes after the resume block: line 145 and line 151
AfterResume(a) ==
    IF a.test_only THEN "test"
    ELSE IF a.epochs > 0 THEN "train" ELSE "returned"

\* lines 139-143: load the checkpoint named by --resume, if any
WorkerResume(w) ==
    /\ mainpc = "running"
    /\ workers[w].pc = "resume"
    /\ LET wk == workers[w]
       IN  IF args.resume = <<>>
           THEN SetWorker(w, [wk EXCEPT !.pc = AfterResume(args),
                                        !.sched0 = wk.lr_scheduler])
           ELSE IF args.resume[1] \in DOMAIN fs
           THEN LET ld == LoadCheckpoint(wk, fs[args.resume[1]])
                IN  SetWorker(w, [ld EXCEPT !.pc = AfterResume(args),
                                            !.sched0 = ld.lr_scheduler,
                                            !.trace = Append(@, Event("load", fs[args.resume[1]].model.trained))])
           ELSE SetWorker(w, [wk EXCEPT !.pc = "raised"])
    /\ UNCHANGED <<given, args, mainpc, launch, fs, writes, stdout, status, runs>>

\* lines 145-147: evaluate once and return
WorkerTestOnly(w) ==
    /\ mainpc = "running"
    /\ workers[w].pc = "test"
    /\ SetWorker(w, [workers[w] EXCEPT !.pc = "returned",
                                       !.trace = Append(@, Event("eval", 0))])
    /\ UNCHANGED <<given, args, mainpc, launch, fs, writes, stdout, status, runs>>

\* v has entered the train step of epoch e, or is past it
Entered(v, e) ==
    /\ workers[v].pc \in {"train", "sched", "save", "eval", "returned"}
    /\ workers[v].epoch >= e

\* WorkerTrain going on to the checkpoint without lr_scheduler.step()
WorkerTrain_SkipScheduler(w) ==
    /\ mainpc = "running"
    /\ workers[w].pc = "train"
    /\ workers[w].distributed => \A v \in Launched : Entered(v, workers[w].epoch)
    /\ LET wk == workers[w]
           t  == TrainOneEpoch(wk.model, wk.optimizer, wk.epoch)
       IN  SetWorker(w, [wk EXCEPT !.pc = IF args.output_dir # "" THEN "save" ELSE "eval",
                                   !.model = t.model,
                                   !.optimizer = t.optimizer,
                                   !.trace = Append(@, Event("train", wk.epoch))])
    /\ UNCHANGED <<given, args, mainpc, launch, fs, writes, stdout, status, runs>>

\* lines 152-154: one epoch of training; under the distributed data-parallel
\* wrapper the gradients are reduced over all workers, so none completes the
\* epoch before every worker has entered it
WorkerTrain(w) ==
    /\ mainpc = "running"
    /\ workers[w].pc = "train"
    /\ workers[w].distributed => \A v \in Launched : Entered(v, workers[w].epoch)
    /\ LET wk == workers[w]
           t  == TrainOneEpoch(wk.model, wk.optimizer, wk.epoch)
       IN  SetWorker(w, [wk EXCEPT !.pc = "sched",
                                   !.model = t.model,
                                   !.optimizer = t.optimizer,
                                   !.trace = Append(@, Event("train", wk.epoch))])
    /\ UNCHANGED <<given, args, mainpc, launch, fs, writes, stdout, status, runs>>

\* line 155, and the test of line 156
WorkerSchedulerStep(w) ==
    /\ mainpc = "running"
    /\ workers[w].pc = "sched"
    /\ LET wk == workers[w]
           s  == SchedulerStep(wk.lr_scheduler, wk.optimizer)
       IN  SetWorker(w, [wk EXCEPT !.pc = IF args.output_dir # "" THEN "save" ELSE "eval",
                                   !.optimizer = s.optimizer,
                                   !.lr_scheduler = s.lr_scheduler,
                                   !.trace = Append(@, Event("sched", wk.epoch))])
    /\ UNCHANGED <<given, args, mainpc, launch, fs, writes, stdout, status, runs>>

\* WorkerSave calling torch.save on every rank
WorkerSave_Unguarded(w) ==
    /\ mainpc = "running"
    /\ workers[w].pc = "save"
    /\ LET wk   == workers[w]
           disk == TorchSave([fs |-> fs, writes |-> writes], wk,
                             Checkpoint(wk, args), wk.epoch)
       IN  /\ fs' = disk.fs
           /\ writes' = disk.writes
           /\ SetWorker(w, [wk EXCEPT !.pc = "eval",
                                      !.trace = Append(@, Event("save", wk.epoch))])
    /\ UNCHANGED <<given, args, mainpc, launch, stdout, status, runs>>

\* lines 157-162: hand the checkpoint of this epoch to save_on_master
WorkerSave(w) ==
    /\ mainpc = "running"
    /\ workers[w].pc = "save"
    /\ LET wk   == workers[w]
           disk == SaveOnMaster([fs |-> fs, writes |-> writes], wk,
                                Checkpoint(wk, args), wk.epoch)
       IN  /\ fs' = disk.fs
           /\ writes' = disk.writes
           /\ SetWorker(w, [wk EXCEPT !.pc = "eval",
                                      !.trace = Append(@, Event("save", wk.epoch))])
    /\ UNCHANGED <<given, args, mainpc, launch, stdout, status, runs>>

\* the next value of `for epoch in range(args.epochs)`, or the end of the loop
NextEpoch(a, epoch) ==
    IF epoch + 1 < a.epochs
    THEN [pc |-> "train", epoch |-> epoch + 1]
    ELSE [pc |-> "returned", epoch |-> epoch + 1]

\* line 165, then the loop head of line 151 or lines 167-169
WorkerEvaluate(w) ==
    /\ mainpc = "running"
    /\ workers[w].pc = "eval"
    /\ LET wk == workers[w]
           n  == NextEpoch(args, wk.epoch)
       IN  SetWorker(w, [wk EXCEPT !.pc = n.pc,
                                   !.epoch = n.epoch,
                                   !.trace = Append(@, Event("eval", wk.epoch))])
    /\ UNCHANGED <<given, args, mainpc, launch, fs, writes, stdout, status, runs>>

(***************************************************************************)
(* Command lines.                                                          *)
(***************************************************************************)
\* the sequence 0, 1, ..., n-1
UpTo(n) == [i \in 1..n |-> i - 1]

SeqsUpTo(A, n) == UNION {[1..k -> A] : k \in 0..n}

\* --local-gpus: device ids in increasing order, at least one
LocalGpuLists ==
    {s \in SeqsUpTo(Procs, MaxGpus) :
        Len(s) >= 1 /\ \A i \in 1..(Len(s) - 1) : s[i] < s[i + 1]}

WorldSizes == 0..(MaxGpus + 1)

NodeRanks == {0, 1}

DatasetNames == {"coco", "coco_kp", "voc"}

PathPrefixes ==
    { <<>>,
      <<"g", "s", ":">>,
      <<"g", "s", ":", "/", "/", "b">>,
      <<"s", "3", ":", "/", "/", "b">> }

DataPaths == {p \o b : p \in PathPrefixes, b \in SeqsUpTo({"/", "a", "?"}, MaxPathLen)}

LrSteps == { <<1>>, <<2, 3>> }

ResumePaths == {<<>>} \cup {<<i>> : i \in 0..(MaxEpochs - 1)}

DefaultArgs ==
    [world_size |-> 1, local_gpus |-> <<0>>, node_rank |-> 0,
     dataset |-> "coco", data_path |-> <<"/", "a">>,
     epochs |-> 1, resume |-> <<>>, test_only |-> FALSE,
     output_dir |-> "out", lr_steps |-> <<1>>]

\* command lines that vary the launch: no epoch is trained
LaunchInputs ==
    {[DefaultArgs EXCEPT !.world_size = ws, !.local_gpus = g, !.node_rank = n,
                         !.epochs = 0] :
        ws \in WorldSizes, g \in LocalGpuLists, n \in NodeRanks}

\* command lines that vary the dataset: test only
DataInputs ==
    {[DefaultArgs EXCEPT !.dataset = d, !.data_path = p, !.test_only = TRUE] :
        d \in DatasetNames, p \in DataPaths}

\* the device lists 0..n-1 that leave out at least one device
TrainGpuLists == {h \in LocalGpuLists : h = UpTo(Len(h)) /\ Len(h) < MaxGpus}

\* command lines that vary the training, on the first node or on another one,
\* or name a checkpoint that does not exist
TrainInputs ==
    {[DefaultArgs EXCEPT !.epochs = e, !.test_only = t, !.output_dir = o,
                         !.lr_steps = l, !.local_gpus = g] :
        e \in 0..MaxEpochs, t \in BOOLEAN, o \in {"", "out"}, l \in LrSteps,
        g \in TrainGpuLists}
    \cup {[DefaultArgs EXCEPT !.epochs = e, !.local_gpus = g, !.node_rank = 1] :
        e \in 1..MaxEpochs, g \in TrainGpuLists}
    \cup {[DefaultArgs EXCEPT !.resume = r] : r \in ResumePaths}

Inputs == LaunchInputs \cup DataInputs \cup TrainInputs

NoLaunch == [mode |-> "none", nprocs |-> 0]

\* the program is invoked again, to resume from a checkpoint that the output
\* directory holds
NewRun ==
    /\ mainpc \in {"done", "exited"}
    /\ runs < MaxRuns
    /\ \E e \in 0..MaxEpochs, r \in ResumePaths, t \in BOOLEAN :
          /\ r # <<>>
          /\ r[1] \in DOMAIN fs
          /\ given' = [given EXCEPT !.epochs = e, !.resume = r, !.test_only = t]
          /\ args' = given'
    /\ mainpc' = "start"
    /\ launch' = NoLaunch
    /\ workers' = [w \in Procs |-> NoWorker]
    /\ writes' = <<>>
    /\ stdout' = {}
    /\ status' = -1
    /\ runs' = runs + 1
    /\ UNCHANGED fs

Init ==
    /\ given \in Inputs
    /\ args = given
    /\ mainpc = "start"
    /\ launch = NoLaunch
    /\ workers = [w \in Procs |-> NoWorker]
    /\ fs = <<>>
    /\ writes = <<>>
    /\ stdout = {}
    /\ status = -1
    /\ runs = 1

Next ==
    \/ MainCheckWorldSize
    \/ MainLaunch
    \/ MainFinish
    \/ NewRun
    \/ \E w \in Procs :
          \/ WorkerSetup(w)
          \/ WorkerResume(w)
          \/ WorkerTestOnly(w)
          \/ WorkerTrain(w)
          \/ WorkerSchedulerStep(w)
          \/ WorkerSave(w)
          \/ WorkerEvaluate(w)

Spec == Init /\ [][Next]_vars

(***************************************************************************)
(* Reference run and helpers of the properties.                            *)
(***************************************************************************)
RECURSIVE Uninterrupted(_, _)
\* the objects of one worker after n epochs of a run that was never interrupted
Uninterrupted(n, lr_steps) ==
    IF n = 0
    THEN LET s == NewScheduler(lr_steps, NewOptimizer)
         IN  [model |-> NewModel, optimizer |-> s.optimizer,
              lr_scheduler |-> s.lr_scheduler]
    ELSE LET p == Uninterrupted(n - 1, lr_steps)
             t == TrainOneEpoch(p.model, p.optimizer, n - 1)
             s == SchedulerStep(p.lr_scheduler, t.optimizer)
         IN  [model |-> t.model, optimizer |-> s.optimizer,
              lr_scheduler |-> s.lr_scheduler]

Loaded(wk) == wk.trace # <<>> /\ wk.trace[1].op = "load"

\* epochs recorded in the checkpoint the worker resumed from, 0 without one
Carried(wk) == IF Loaded(wk) THEN wk.trace[1].epoch ELSE 0

\* the trace without its "load" entry
Steps(wk) == IF Loaded(wk) THEN Tail(wk.trace) ELSE wk.trace

\* epochs whose scheduler step the worker has performed in this invocation
Stepped(wk) == wk.epoch + (IF wk.pc \in {"save", "eval"} THEN 1 ELSE 0)

AtBoundary(wk) == wk.pc \in {"test", "train", "save", "eval", "returned"}

OfOp(t, op) == SelectSeq(t, LAMBDA ev : ev.op = op)

Epochs(t) == [i \in 1..Len(t) |-> t[i].epoch]

TrainingReturned(w) ==
    /\ workers[w].pc = "returned"
    /\ ~args.test_only

C2_CheckpointPerEpoch ==
    /\ \A i \in DOMAIN writes :
          /\ writes[i].rank = 0
          /\ workers[writes[i].worker].rank = 0
    /\ \A j \in DOMAIN fs :
          DOMAIN fs[j] = {"model", "optimizer", "lr_scheduler", "args"}
    /\ ( /\ mainpc = "done"
         /\ Launched # {}
         /\ \A w \in Launched : TrainingReturned(w)
         /\ args.output_dir # "" )
       => /\ (\E w \in Launched : workers[w].rank = 0) =>
                /\ Epochs(writes) = UpTo(args.epochs)
                /\ \A e \in 0..(args.epochs - 1) : e \in DOMAIN fs
          /\ (\A w \in Launched : workers[w].rank # 0) => writes = <<>>

\* two workers have finished two epochs: both called save_on_master in each
\* epoch, two checkpoints were written
C2_Witness ==
    /\ mainpc = "done"
    /\ Cardinality(Launched) = 2
    /\ args.epochs = 2
    /\ \A w \in Launched :
          TrainingReturned(w) /\ Len(OfOp(workers[w].trace, "save")) = 2
    /\ \E w \in Launched : workers[w].rank # 0
    /\ Len(writes) = 2

\* C3: "coco" resolves to 91 classes and "coco_kp" to 2; any other name
\* prints a message and ends the process without an error, and then no
\* dataset is constructed and no class count is returned
C3_DatasetDispatch ==
    /\ \A w \in Launched :
          LET wk == workers[w]
          IN  wk.pc # "start" =>
                 /\ args.dataset = "coco" =>
                       /\ wk.num_classes = 91
                       /\ Len(wk.ds_calls) = 2
                       /\ \A i \in DOMAIN wk.ds_calls : wk.ds_calls[i].fn = "get_coco"
                 /\ args.dataset = "coco_kp" =>
                       /\ wk.num_classes = 2
                       /\ Len(wk.ds_calls) = 2
                       /\ \A i \in DOMAIN wk.ds_calls : wk.ds_calls[i].fn = "get_coco_kp"
                 /\ args.dataset \notin {"coco", "coco_kp"} =>
                       /\ wk.pc = "exited"
                       /\ wk.ds_calls = <<>>
                       /\ wk.num_classes = 0
                       /\ [who |-> "worker", msg |-> "dataset"] \in stdout
    /\ (args.dataset \notin {"coco", "coco_kp"} /\ mainpc \in {"done", "exited"})
          => status = 0

\* the launching process itself has ended on an unrecognised dataset name
C3_Witness ==
    /\ args.dataset = "voc"
    /\ mainpc = "exited"
    /\ workers[0].pc = "exited"
    /\ status = 0

\* C4 as stated: main_worker is spawned exactly when more than one local
\* device is listed, one process per device, and is otherwise called once in
\* the launching process
C4_SpawnIffSeveralGpus ==
    launch.mode # "none" =>
        /\ launch.mode = "spawn" <=> Len(args.local_gpus) > 1
        /\ launch.mode = "spawn" =>
              /\ launch.nprocs = Len(args.local_gpus)
              /\ Cardinality(Launched) = Len(args.local_gpus)
        /\ launch.mode = "inline" => Launched = {0}

\* C4, amended: main_worker is spawned exactly when the node rank is not zero
\* or more than one local device is listed, one process per device, and is
\* otherwise called once in the launching process
C4_SpawnIffNodeRankOrSeveralGpus ==
    launch.mode # "none" =>
        /\ launch.mode = "spawn" <=> (args.node_rank # 0 \/ Len(args.local_gpus) > 1)
        /\ launch.mode = "spawn" =>
              /\ launch.nprocs = Len(args.local_gpus)
              /\ Cardinality(Launched) = Len(args.local_gpus)
              /\ \A w \in Launched : workers[w].local_rank = w
        /\ launch.mode = "inline" =>
              /\ Launched = {0}
              /\ workers[0].local_rank = args.local_gpus[1]

\* one process has been spawned for the single device of a node of rank 1
C4_Witness ==
    /\ launch.mode = "spawn"
    /\ args.node_rank = 1
    /\ Len(args.local_gpus) = 1
    /\ Cardinality(Launched) = 1

\* C5: a world size other than 1 and below the number of listed devices ends
\* the process with a message before anything is launched, and every launched
\* worker sees a world size of at least the number of listed devices
C5_WorldSizeTooSmallExits ==
    /\ ( /\ given.world_size # 1
         /\ given.world_size < Len(given.local_gpus)
         /\ mainpc # "start" )
       => /\ mainpc = "exited"
          /\ launch.mode = "none"
          /\ Launched = {}
          /\ [who |-> "main", msg |-> "world-size"] \in stdout
    /\ \A w \in Launched : workers[w].world_size >= Len(given.local_gpus)

\* a world size of 2 for three devices has ended the process with the message
C5_Witness ==
    /\ given.world_size = 2
    /\ Len(given.local_gpus) = 3
    /\ mainpc = "exited"
    /\ stdout = {[who |-> "main", msg |-> "world-size"]}
    /\ Launched = {}

\* C6: a world size left at 1 with several listed devices becomes the number
\* of devices for every launched worker; otherwise, unless the process has
\* ended, the world size stays as given
C6_DefaultWorldSizeBecomesGpuCount ==
    LET several == given.world_size = 1 /\ Len(given.local_gpus) > 1
    IN  /\ \A w \in Launched :
              workers[w].world_size =
                 IF several THEN Len(given.local_gpus) ELSE given.world_size
        /\ (~several /\ mainpc \in {"launch", "running", "done"}) =>
              args.world_size = given.world_size

\* two workers were launched from the default world size and both see 2
C6_Witness ==
    /\ given.world_size = 1
    /\ Len(given.local_gpus) = 2
    /\ Launched = {0, 1}
    /\ \A w \in Launched : workers[w].world_size = 2 /\ workers[w].pc # "start"

\* s without its first character
DropFirst(s) == IF s = <<>> THEN <<>> ELSE Tail(s)

\* C7: for a data path of scheme "gs" both dataset constructions receive the
\* object path without its first character and the bucket of the host part,
\* never the data path as given nor the object path with its separator
C7_GsPathStripped ==
    \A w \in Launched :
        LET wk  == workers[w]
            url == UrlParse(given.data_path)
        IN  (url.scheme = GS /\ wk.pc # "start") =>
               /\ args.dataset \in {"coco", "coco_kp"} =>
                     /\ Len(wk.ds_calls) = 2
                     /\ wk.ds_calls[1].image_set = "train"
                     /\ wk.ds_calls[2].image_set = "val"
               /\ \A i \in DOMAIN wk.ds_calls :
                     /\ wk.ds_calls[i].data_path = DropFirst(url.path)
                     /\ wk.ds_calls[i].gs_bucket = [present |-> TRUE, name |-> url.netloc]
                     /\ wk.ds_calls[i].data_path # given.data_path
                     /\ url.path # <<>> => wk.ds_calls[i].data_path # url.path

\* the data path gs://b/a has reached both constructions as "a" with bucket b
C7_Witness ==
    /\ given.data_path = <<"g", "s", ":", "/", "/", "b", "/", "a">>
    /\ Len(workers[0].ds_calls) = 2
    /\ \A i \in 1..2 :
          /\ workers[0].ds_calls[i].data_path = <<"a">>
          /\ workers[0].ds_calls[i].gs_bucket = [present |-> TRUE, name |-> <<"b">>]

\* the steps of epoch e, with or without the call of save_on_master
EpochSteps(e, saving) ==
    <<Event("train", e), Event("sched", e)>>
        \o (IF saving THEN <<Event("save", e)>> ELSE <<>>)
        \o <<Event("eval", e)>>

RECURSIVE EpochsSteps(_, _)
\* the steps of epochs 0..n-1
EpochsSteps(n, saving) ==
    IF n = 0 THEN <<>> ELSE EpochsSteps(n - 1, saving) \o EpochSteps(n - 1, saving)

\* the steps of the epoch a worker is in the middle of
PartialSteps(wk, saving) ==
    LET full == EpochSteps(wk.epoch, saving)
    IN  IF wk.pc = "sched" THEN SubSeq(full, 1, 1)
        ELSE IF wk.pc = "save" THEN SubSeq(full, 1, 2)
        ELSE IF wk.pc = "eval" THEN SubSeq(full, 1, Len(full) - 1)
        ELSE <<>>

InLoop(wk) == wk.pc \in {"train", "sched", "save", "eval", "returned"}

\* every checkpoint written by this invocation holds a scheduler stepped e+1
\* times more than the scheduler the writer started its loop with
CheckpointSchedulerSteps ==
    \A i \in DOMAIN writes :
        LET e  == writes[i].epoch
            s0 == workers[writes[i].worker].sched0
        IN  /\ e \in DOMAIN fs
            /\ fs[e].lr_scheduler.step_count = s0.step_count + e + 1
            /\ fs[e].lr_scheduler.last_epoch = s0.last_epoch + e + 1

\* C8 as stated: every epoch of a training run consists of train step,
\* scheduler step, checkpoint save and evaluation, in this order and epoch
\* after epoch, and the checkpoint of epoch e holds a scheduler stepped e+1
\* times since the start of the run
C8_EpochOrderAlwaysSaving ==
    /\ \A w \in Launched :
          LET wk == workers[w]
          IN  (~args.test_only /\ InLoop(wk)) =>
                 Steps(wk) = EpochsSteps(wk.epoch, TRUE) \o PartialSteps(wk, TRUE)
    /\ CheckpointSchedulerSteps

\* C8, amended: the checkpoint save is part of an epoch only when the output
\* directory is non-empty; the order and the scheduler steps are as stated
C8_EpochOrder ==
    /\ \A w \in Launched :
          LET wk     == workers[w]
              saving == args.output_dir # ""
          IN  (~args.test_only /\ InLoop(wk)) =>
                 Steps(wk) = EpochsSteps(wk.epoch, saving) \o PartialSteps(wk, saving)
    /\ CheckpointSchedulerSteps

\* a resumed run has written the checkpoints of two epochs; the second holds
\* a scheduler stepped twice more than the one that was loaded
C8_Witness ==
    /\ TrainingReturned(0)
    /\ Carried(workers[0]) >= 1
    /\ Len(writes) = 2
    /\ Len(workers[0].trace) = 9
    /\ fs[1].lr_scheduler.step_count = workers[0].sched0.step_count + 2

\* C9: a test-only worker loads the resume checkpoint if one is given, then
\* evaluates once and returns; it trains nothing, steps no scheduler, writes
\* no checkpoint, and the launching process ends with the status of a
\* training run
C9_TestOnly ==
    /\ args.test_only =>
          /\ writes = <<>>
          /\ \A w \in Launched :
                LET wk == workers[w]
                IN  /\ \A i \in DOMAIN wk.trace : wk.trace[i].op \in {"load", "eval"}
                    /\ Loaded(wk) <=> (args.resume # <<>> /\ AtBoundary(wk))
                    /\ wk.pc = "returned" =>
                          /\ Len(OfOp(wk.trace, "eval")) = 1
                          /\ wk.trace[Len(wk.trace)].op = "eval"
                          /\ wk.lr_scheduler = wk.sched0
                          /\ wk.model.trained = Carried(wk)
    /\ (mainpc = "done" /\ \A w \in Launched : workers[w].pc = "returned") => status = 0

\* a test-only invocation has loaded a checkpoint, evaluated and ended
C9_Witness ==
    /\ args.test_only
    /\ mainpc = "done"
    /\ status = 0
    /\ workers[0].pc = "returned"
    /\ Len(workers[0].trace) = 2
    /\ workers[0].trace[1].op = "load"
    /\ workers[0].trace[2].op = "eval"

\* C10: a resumed training run performs exactly the requested number of
\* epochs, numbered from 0 whatever the checkpoint records, and its rank-zero
\* worker writes the checkpoints 0..epochs-1 again
C10_ResumeRestartsEpochIndex ==
    \A w \in Launched :
        LET wk == workers[w]
        IN  /\ (Loaded(wk) /\ wk.pc = "train") => wk.epoch \in 0..(args.epochs - 1)
            /\ (Loaded(wk) /\ TrainingReturned(w)) =>
                  /\ Epochs(OfOp(wk.trace, "train")) = UpTo(args.epochs)
                  /\ wk.model.trained = Carried(wk) + args.epochs
                  /\ (wk.rank = 0 /\ args.output_dir # "") =>
                        /\ Epochs(writes) = UpTo(args.epochs)
                        /\ \A e \in 0..(args.epochs - 1) :
                              fs[e].model.trained = Carried(wk) + e + 1

\* a run resumed from a checkpoint of one or more epochs has run two epochs
\* and replaced model_0 and model_1
C10_Witness ==
    /\ TrainingReturned(0)
    /\ Carried(workers[0]) >= 1
    /\ args.epochs = 2
    /\ Epochs(writes) = <<0, 1>>
    /\ fs[0].model.trained = Carried(workers[0]) + 1
    /\ fs[0].model.trained > 1

====
